---- MODULE Spec2Model ----
(***************************************************************************)
(* BackgroundManager (v1.2.14): the image store kept in IndexedDB, the      *)
(* popup's in-memory image list (useIDB), the asynchronous accesses to the  *)
(* store (accessDB, setImageFromIDB, stop), the slideshow tick and the      *)
(* presentation state of viewTransition.                                    *)
(*                                                                         *)
(* An access to the store is two steps of the event loop: the call, which   *)
(* opens the database and reads it (getAllItems), and the delivery of the   *)
(* read result, which runs the callback and creates the write transaction   *)
(* (saveItems).  IndexedDB orders transactions on one store by creation, so *)
(* the write is modelled as taking effect when it is created, and a read as *)
(* returning the store as it is at the call.  The results of reads that are *)
(* in flight at the same time are delivered in the order of the calls (the  *)
(* database task source is first in, first out).                            *)
(***************************************************************************)
EXTENDS Integers, Sequences, FiniteSets, TLC

\* ------------------------------------------------------------------ bounds
MaxItems == 3      \* most items in the store / in the popup's list
MaxStored == 2     \* most items the store holds when the plugin is first enabled
MaxCalls == 7      \* most store accesses issued in one run
MaxLifeCalls == 9  \* the same, in the runs that disable and enable the plugin
MaxLifePending == 4
MaxDeepCalls == 10 \* the same, in the runs that open the popup twice
MaxPending == 2    \* most store accesses in flight at once
MaxUrl == 4        \* object URLs that can be referenced at the same time
MaxObj == 4        \* popup item objects alive at the same time
MaxTimers == 2     \* deferred override updates pending at the same time

\* ------------------------------------------------------------- item values
NoSrc == 0         \* src: null
NoStyle == -1      \* the 'BackgroundManager-background' style is absent
NoTimer == 0       \* timer: null

Urls == 1..MaxUrl
Refs == 1..MaxObj
Images == 1..(MaxItems + 1)

\* ImageItem {id, image, selected, src}; width and height are never read by
\* the operations modelled here.
Item(id, image, selected, src) ==
  [id |-> id, image |-> image, selected |-> selected, src |-> src]

FreeObj == Item(0, 0, FALSE, NoSrc)

\* No file has been uploaded yet.
NoFile == [data |-> <<>>, present |-> FALSE, ext |-> "", intact |-> FALSE]

NoUpload == [stage |-> "none", file |-> NoFile, type |-> ""]

Range(s) == {s[i] : i \in DOMAIN s}

Ids(s) == {s[i].id : i \in DOMAIN s}

\* ------------------------------------------------------- the object store
\* The store is the sequence getAll() returns: records in key (id) order.
StorePut(store, e) ==
  SelectSeq(store, LAMBDA x : x.id < e.id) \o <<e>> \o
  SelectSeq(store, LAMBDA x : x.id > e.id)

StoreDelete(store, k) == SelectSeq(store, LAMBDA x : x.id # k)

\* The add/put requests of saveItems, in order.  store.add on a key that is
\* already present fails with a ConstraintError; nothing prevents the
\* default, so the transaction aborts.
RECURSIVE WriteItems(_, _, _, _)
WriteItems(store, newItems, prevIds, i) ==
  IF i > Len(newItems) THEN [ok |-> TRUE, store |-> store]
  ELSE LET e == newItems[i] IN
       IF e.id \notin prevIds /\ e.id \in Ids(store)
       THEN [ok |-> FALSE, store |-> store]
       ELSE WriteItems(StorePut(store, e), newItems, prevIds, i + 1)

RECURSIVE DeleteItems(_, _, _, _)
DeleteItems(store, prevItems, newIds, i) ==
  IF i > Len(prevItems) THEN store
  ELSE DeleteItems(IF prevItems[i].id \notin newIds
                   THEN StoreDelete(store, prevItems[i].id) ELSE store,
                   prevItems, newIds, i + 1)

\* saveItems(db, storeName, newItems, prevItems): the store after the
\* transaction (unchanged when it aborts).
saveItems(store, newItems, prevItems) ==
  LET w == WriteItems(store, newItems, Ids(prevItems), 1) IN
  IF w.ok THEN DeleteItems(w.store, prevItems, Ids(newItems), 1) ELSE store

\* ---------------------------------------------------------------- state
VARIABLES
  db,              \* the 'images' object store: records in key order
  pending,         \* store accesses whose read is not yet delivered, oldest first
  open,            \* PopoutComponent: the popup (ManagerBody) is mounted
  items,           \* useIDB items: the popup's list, as object references
  obj,             \* the popup's item objects (mutated in place by handlers)
  live,            \* object URLs created and not revoked
  viewTransition,  \* closure state of viewTransition and the override style
  interval,        \* slideShowManager: the handle of its timer, or NoTimer
  host,            \* the timers setInterval armed, React's queued updaters
  triggeredWhileHidden,
  visible,         \* document.visibilityState === 'visible'
  settings,        \* constants.settings (the fields the operations read)
  persisted,       \* the configuration Data.load gives
  loop,            \* the do-while of the shuffle branch: x, counter, draws
  calls,           \* store accesses (openDB) issued so far
  bound,           \* how many accesses a run issues, in all and at once
  upload,          \* InputComponent: the file of the last upload and its outcome
  props,           \* BackgroundLibrary: the id props of the rendered images
  hist,            \* history: what the calls so far were and left behind
  pc               \* plugin life cycle: "off", "reconcile", "apply", "on"

vars == <<db, pending, open, items, obj, live, viewTransition, interval,
          host, triggeredWhileHidden, visible, settings, persisted, loop, calls,
          bound,
          upload,
          props, hist, pc>>

\* A store access in flight: what it is, the store as its read saw it, and
\* (popup save) the items array its callback closes over.
Op(kind, snap, arr) == [kind |-> kind, snap |-> snap, arr |-> arr]

PendingOps == Range(pending)

CanCall(n) == Len(pending) + n <= bound.pending /\ calls + n <= bound.calls

\* ------------------------------------------------------------ object URLs
SrcsOf(s) == {s[i].src : i \in DOMAIN s} \ {NoSrc}

ViewSrcs(v) ==
  ({v.currentSrc, v.style} \cup {x.src : x \in v.timeouts}
     \cup {v.domBG[i].image : i \in DOMAIN v.domBG}) \ {NoSrc, NoStyle}

\* Every URL some part of the state still refers to.
Referenced(d, o, p, v) ==
  SrcsOf(d) \cup {o[r].src : r \in Refs} \cup ViewSrcs(v)
    \cup UNION {SrcsOf(q.snap) : q \in Range(p)}

InUse == (live \cup Referenced(db, obj, pending, viewTransition)) \ {NoSrc}

\* URL.createObjectURL: n URLs that nothing refers to, or <<>> when the
\* pool cannot supply them (the caller is then not enabled).
RECURSIVE FreshUrls(_, _)
FreshUrls(used, n) ==
  IF n = 0 THEN <<>>
  ELSE IF Urls \ used = {} THEN <<>>
  ELSE LET u == CHOOSE x \in Urls \ used : \A y \in Urls \ used : x <= y
           rest == FreshUrls(used \cup {u}, n - 1)
       IN IF Len(rest) = n - 1 THEN <<u>> \o rest ELSE <<>>

HasFresh(n) == Cardinality(Urls \ InUse) >= n

\* URLs that nothing refers to any more are forgotten.
Live(urls, d, o, p, v) == urls \cap Referenced(d, o, p, v)

\* ----------------------------------------------------- popup item objects
RefsOf(its, p) == Range(its) \cup UNION {Range(q.arr) : q \in Range(p)}

\* Objects no list and no closure refers to are dropped.
Heap(o, its, p) == [r \in Refs |-> IF r \in RefsOf(its, p) THEN o[r] ELSE FreeObj]

RECURSIVE FreshRefs(_, _)
FreshRefs(used, n) ==
  IF n = 0 THEN <<>>
  ELSE IF Refs \ used = {} THEN <<>>
  ELSE LET r == CHOOSE x \in Refs \ used : \A y \in Refs \ used : x <= y
           rest == FreshRefs(used \cup {r}, n - 1)
       IN IF Len(rest) = n - 1 THEN <<r>> \o rest ELSE <<>>

\* The popup's list as item records (what the components render).
Deref(o, its) == [i \in DOMAIN its |-> o[its[i]]]

images == Deref(obj, items)

\* --------------------------------------------------------- viewTransition
TimerIds == 1..MaxTimers

Bg(active, image) == [active |-> active, image |-> image]

\* baseLayerBg as React renders it: the buffer activeIndex carries the class
\* 'active', and the current image when there is one.
RenderBg(v) ==
  [i \in 1..2 |-> Bg(v.activeIndex = i - 1,
                     IF v.activeIndex = i - 1 THEN v.currentSrc ELSE NoSrc)]

FreeTimer(v) ==
  CHOOSE t \in TimerIds \ {x.id : x \in v.timeouts} :
    \A u \in TimerIds \ {x.id : x \in v.timeouts} : t <= u

CanDefer(v) == TimerIds \ {x.id : x \in v.timeouts} # {}

\* A setImage that flips the buffers whether the host is visible or not.
setImageFlips(v, src, vis, overwriteCSS) ==
  LET idx == 1 - v.activeIndex
      v2 == IF Len(v.domBG) = 2
            THEN [v EXCEPT !.currentSrc = src,
                           !.activeIndex = idx,
                           !.domBG = [i \in 1..2 |->
                              IF i = idx + 1 THEN Bg(TRUE, src)
                              ELSE Bg(FALSE, v.domBG[i].image)]]
            ELSE [v EXCEPT !.currentSrc = src]
  IN IF ~v.property \/ ~overwriteCSS THEN v2
     ELSE IF v.originalBackground
          THEN [v2 EXCEPT !.originalBackground = FALSE,
                          !.timer = FreeTimer(v),
                          !.timeouts = @ \cup {[id |-> FreeTimer(v), src |-> src]}]
          ELSE [v2 EXCEPT !.style = src]

\* viewTransition.setImage(src), with the host's visibility and the
\* overwriteCSS setting as they are at the call.
setImage(v, src, vis, overwriteCSS) ==
  LET idx == IF vis THEN 1 - v.activeIndex ELSE v.activeIndex
      v1 == [v EXCEPT !.currentSrc = src]
      v2 == IF Len(v.domBG) = 2
            THEN [v1 EXCEPT !.activeIndex = idx,
                            !.domBG = [i \in 1..2 |->
                               IF i = idx + 1 THEN Bg(TRUE, src)
                               ELSE Bg(FALSE, v.domBG[i].image)]]
            ELSE v1
  IN IF ~v.property \/ ~overwriteCSS THEN v2
     ELSE IF v.originalBackground
          THEN LET t == FreeTimer(v) IN
               [v2 EXCEPT !.originalBackground = FALSE,
                          !.timer = t,
                          !.timeouts = @ \cup {[id |-> t, src |-> src]}]
          ELSE [v2 EXCEPT !.style = src]

\* setImage is enabled unless it would need one more pending timeout than
\* the model keeps.
CanSetImage(v, overwriteCSS) ==
  (v.property /\ overwriteCSS /\ v.originalBackground) => CanDefer(v)

removeImage(v) ==
  [v EXCEPT !.domBG = [i \in DOMAIN v.domBG |-> Bg(FALSE, v.domBG[i].image)],
            !.originalBackground = TRUE,
            !.style = NoStyle]

destroy(v) ==
  [v EXCEPT !.timeouts = {x \in @ : x.id # v.timer},
            !.timer = NoTimer,
            !.originalBackground = TRUE,
            !.style = NoStyle,
            !.currentSrc = NoSrc,
            !.activeIndex = 0,
            !.domBG = <<>>]

\* viewTransition.create() and the first render of baseLayerBg.
create(v) == [v EXCEPT !.domBG = RenderBg(v)]

InitView ==
  [activeIndex |-> 0, domBG |-> <<>>, currentSrc |-> NoSrc,
   originalBackground |-> TRUE, timer |-> NoTimer, timeouts |-> {},
   style |-> NoStyle, property |-> FALSE]

\* ------------------------------------------------------------------ init
defaultSettings ==
  [slideshowEnabled |-> FALSE, interval |-> 300000, shuffle |-> TRUE,
   overwriteCSS |-> TRUE]

\* ------------------------------------------------------- slideShowManager
Max(a, b) == IF a >= b THEN a ELSE b

MinPeriod == 30000

\* The period start() gives to setInterval.
Period(s) == Max(s.interval, MinPeriod)

Show(i, ts, t) == [interval |-> i, timers |-> ts, triggeredWhileHidden |-> t]

\* slideShowManager.stop(): clearInterval of the handle it holds.
slideShowStop(show) ==
  Show(NoTimer, {t \in show.timers : t.id # show.interval}, FALSE)

\* setInterval returns a handle that no armed timer has.
FreeInterval(ts) ==
  CHOOSE t \in TimerIds \ {x.id : x \in ts} :
    \A u \in TimerIds \ {x.id : x \in ts} : t <= u

\* start() that arms a timer and leaves the one it holds armed.
slideShowStartKeeps(show, s) ==
  LET id == FreeInterval(show.timers)
  IN Show(id, show.timers \cup {[id |-> id, period |-> Period(s)]}, FALSE)

\* slideShowManager.start() with the configuration s: stop(), then
\* setInterval with the period of s.
slideShowStart(show, s) ==
  LET stopped == slideShowStop(show)
      id == FreeInterval(stopped.timers)
  IN Show(id, stopped.timers \cup {[id |-> id, period |-> Period(s)]}, FALSE)

\* The do-while of the shuffle branch.  at is "idle", "draw" or "done"; cur
\* is currentIndex (-1 for null), x the last draw, draws the number of
\* draws and differed the number of them that differed from cur.
NoLoop ==
  [at |-> "idle", n |-> 0, cur |-> -1, x |-> -1, counter |-> 0, draws |-> 0,
   differed |-> 0]

MaxRetries == 25

\* A loop that gives up after one repeat.
RepeatsOnce(x, cur, counter) == x = cur /\ counter < 1

\* x === currentIndex && counter++ < 25
Repeats(x, cur, counter) == x = cur /\ counter < MaxRetries

\* What a disabled plugin leaves in the store: ids 1..n, no src (stop() clears
\* them all), at most one item selected.
StoredLists ==
  {[i \in 1..n |-> Item(i, i, i = sel, NoSrc)] : n \in 0..MaxStored, sel \in 0..MaxStored}

\* History: stops counts the calls of stop() since the last start(), first
\* holds the store as the write of the first of them left it; ticks counts
\* the ticks of the rotation timer since the host became hidden or the timer
\* was armed, advanced those of them that went on to the store (2 stands for
\* 2 or more); failed is 1 once a tick's store access has failed and 2 once
\* the callback of a tick has run after that.
NoHist == [stops |-> 0, first |-> <<>>, ticks |-> 0, advanced |-> 0, failed |-> 0]

Restarted(h) == [h EXCEPT !.ticks = 0, !.advanced = 0]

Ticked(h, hidden, advancing) ==
  IF ~hidden THEN h
  ELSE [h EXCEPT !.ticks = IF @ < 2 THEN @ + 1 ELSE 2,
                 !.advanced = IF advancing /\ @ < 2 THEN @ + 1 ELSE @]

\* The state when the plugin is enabled for the first time in a run: the
\* store is one of stores, the saved configuration one of configs, and the
\* run issues at most b.calls accesses, b.pending of them at once.
InitFrom(stores, configs, b, saved) ==
  /\ db \in stores
  /\ pending = <<>>
  /\ open = FALSE
  /\ items = <<>>
  /\ obj = [r \in Refs |-> FreeObj]
  /\ live = {}
  /\ viewTransition = InitView
  /\ interval = NoTimer
  /\ host = [timers |-> {}, updates |-> <<>>]
  /\ triggeredWhileHidden = FALSE
  /\ visible = TRUE
  /\ settings \in configs
  /\ persisted \in saved
  /\ loop = NoLoop
  /\ calls = 0
  /\ bound = b
  /\ upload = NoUpload
  /\ props = <<>>
  /\ hist = NoHist
  /\ pc = "off"

\* Nothing is saved: Data.load gives undefined, which spreads as no key.
NoData == <<>>

InitWith(stores, configs, b) == InitFrom(stores, configs, b, {NoData})

Init ==
  InitWith(StoredLists, {defaultSettings},
           [calls |-> MaxCalls, pending |-> MaxPending])

\* ------------------------------------------------- callbacks on the store
\* The positions of a sequence of flags that are set, in order.
RECURSIVE Positions(_, _)
Positions(flags, i) ==
  IF i > Len(flags) THEN <<>>
  ELSE (IF flags[i] THEN <<i>> ELSE <<>>) \o Positions(flags, i + 1)

IndexIn(seq, x) == CHOOSE k \in DOMAIN seq : seq[k] = x

IsSelected(e) == e.selected

\* start(): "refresh objectURL of stored selected image": every src is
\* revoked, the selected items get the URLs of fresh, in order.
Reconcile(stored, fresh) ==
  LET sel == Positions([k \in DOMAIN stored |-> IsSelected(stored[k])], 1) IN
  [i \in DOMAIN stored |->
     [stored[i] EXCEPT !.src = IF stored[i].selected
                                THEN fresh[IndexIn(sel, i)] ELSE NoSrc]]

\* stop(): every src is revoked and cleared.
ClearAll(stored) == [i \in DOMAIN stored |-> [stored[i] EXCEPT !.src = NoSrc]]

\* useIDB's unmount cleanup: the src of every item that is not selected is
\* revoked and cleared.
ClearUnselected(stored) ==
  [i \in DOMAIN stored |->
     IF stored[i].selected THEN stored[i] ELSE [stored[i] EXCEPT !.src = NoSrc]]

RevokedByCleanup(stored) ==
  {stored[i].src : i \in {j \in DOMAIN stored : ~stored[j].selected}}

\* storedImages.reduce((p, c, i) => c.selected ? i : p, null), 0-based;
\* -1 stands for null.
currentIndex(stored) ==
  IF \E i \in DOMAIN stored : stored[i].selected
  THEN (CHOOSE i \in DOMAIN stored :
          stored[i].selected /\ \A j \in DOMAIN stored : stored[j].selected => j <= i) - 1
  ELSE -1

\* A sequential branch that takes the random index whatever is selected.
SequentialRandom(cur, n, rnd) == rnd % n

\* ((currentIndex + 1) || Math.floor(Math.random() * n)) % n: null + 1 is 1.
SequentialIndex(cur, n, rnd) ==
  LET a == (IF cur = -1 THEN 0 ELSE cur) + 1 IN
  (IF a # 0 THEN a ELSE rnd) % n

\* The positions (1-based) the tick's forEach marks selected: by id in the
\* shuffle branch, by position in the sequential one.
TickTargets(stored, shuffle, x, rnd) ==
  IF shuffle /\ Len(stored) > 2
  THEN {i \in DOMAIN stored : stored[i].id - 1 = x}
  ELSE {i \in DOMAIN stored :
          i - 1 = SequentialIndex(currentIndex(stored), Len(stored), rnd)}

\* The items after the tick's forEach.  mounted: the popup's grid is in the
\* document, and then no src is touched.
TickItems(stored, targets, mounted, fresh) ==
  [i \in DOMAIN stored |->
     [stored[i] EXCEPT
        !.selected = (i \in targets),
        !.src = IF mounted THEN @
                ELSE IF i \in targets THEN fresh[1] ELSE NoSrc]]

\* BuildMenuItem's onload callback: the new item is pushed with the next id.
PushItem(stored, image) ==
  Append(stored, Item(Len(stored) + 1, image, FALSE, NoSrc))

ImagesOf(s) == {s[i].image : i \in DOMAIN s}

UsedImages ==
  ImagesOf(db) \cup {obj[r].image : r \in Refs}
    \cup UNION {ImagesOf(q.snap) : q \in PendingOps}

HasImage == Images \ UsedImages # {}

\* The blob of a newly added image: one the state holds nowhere yet.
NewImage == CHOOSE x \in Images \ UsedImages : \A y \in Images \ UsedImages : x <= y

\* ---------------------------------------------------------------- actions
\* What every action does with the store, the accesses in flight, the popup
\* list and heap, the presentation and the URLs: objects and URLs nothing
\* refers to any more are dropped.
Commit(d, p, its, o, v, urls) ==
  /\ db' = d
  /\ pending' = p
  /\ items' = its
  /\ obj' = Heap(o, its, p)
  /\ viewTransition' = v
  /\ live' = Live(urls, d, Heap(o, its, p), p, v)

Call(kind, arr) == Append(pending, Op(kind, db, arr))

\* The oldest access in flight is the one delivered next.
Done(op) == Tail(pending)

NextOp == IF pending = <<>> THEN {} ELSE {Head(pending)}

\* slideShowManager as it is, and the step that leaves it as r.
Running == Show(interval, host.timers, triggeredWhileHidden)

SetShow(r) ==
  /\ interval' = r.interval
  /\ host' = [host EXCEPT !.timers = r.timers]
  /\ triggeredWhileHidden' = r.triggeredWhileHidden

\* The model keeps MaxTimers interval timers at most.
CanStart == TimerIds \ {x.id : x \in host.timers} # {}

\* start(), up to the first await: the reconcile access is issued.
Start ==
  /\ pc = "off"
  /\ CanCall(1)
  /\ Commit(db, Call("reconcile", <<>>), items, obj, viewTransition, live)
  /\ pc' = "reconcile"
  /\ calls' = calls + 1
  /\ hist' = NoHist
  /\ UNCHANGED <<persisted, loop, bound, upload, props>>
  /\ UNCHANGED <<open, interval, host, triggeredWhileHidden, visible, settings>>

\* The reconcile callback and its save; then start() resumes: create(),
\* setProperty(false) (the theme has a usable variable or not), and the
\* second access is issued.
DeliverReconcile ==
  \E op \in NextOp, prop \in BOOLEAN :
    /\ op.kind = "reconcile"
    /\ pc = "reconcile"
    /\ LET n == Len(Positions([k \in DOMAIN op.snap |-> IsSelected(op.snap[k])], 1))
           fresh == FreshUrls(InUse, n)
           newItems == Reconcile(op.snap, fresh)
           d == saveItems(db, newItems, newItems)
           v == [create(viewTransition) EXCEPT
                   !.property = IF settings.overwriteCSS THEN prop ELSE @]
       IN /\ HasFresh(n)
          /\ calls < bound.calls
          /\ Commit(d, Append(Done(op), Op("apply", d, <<>>)), items, obj, v,
                    (live \ SrcsOf(op.snap)) \cup Range(fresh))
    /\ pc' = "apply"
    /\ calls' = calls + 1
    /\ UNCHANGED <<hist, persisted, loop, bound, upload, props>>
    /\ UNCHANGED <<open, interval, host, triggeredWhileHidden, visible, settings>>

\* The second callback of start(): the selected image is presented; then
\* the slideshow starts if enabled and the toolbar button is added.
DeliverApply ==
  \E op \in NextOp :
    /\ op.kind = "apply"
    /\ pc = "apply"
    /\ LET sel == Positions([k \in DOMAIN op.snap |-> IsSelected(op.snap[k])], 1)
           v == IF sel # <<>>
                THEN setImage(viewTransition, op.snap[sel[1]].src, visible,
                              settings.overwriteCSS)
                ELSE viewTransition
       IN /\ sel # <<>> => CanSetImage(viewTransition, settings.overwriteCSS)
          /\ Commit(saveItems(db, op.snap, op.snap), Done(op), items, obj, v, live)
    /\ IF settings.slideshowEnabled
       THEN CanStart /\ SetShow(slideShowStart(Running, settings))
       ELSE UNCHANGED <<interval, host, triggeredWhileHidden>>
    /\ pc' = "on"
    /\ hist' = Restarted(hist)
    /\ UNCHANGED <<persisted, loop, bound, upload, props>>
    /\ UNCHANGED <<open, visible, settings, calls>>

NotLoad(q) == q.kind # "load"

\* The accesses in flight without the loads of a popup that is unmounted:
\* their setItems reaches no component.
WithoutLoads == SelectSeq(pending, NotLoad)

\* stop(): the teardown access is issued, the slideshow and the presentation
\* are torn down, and the popup (if shown) unmounts with the toolbar button.
Stop ==
  /\ pc = "on"
  /\ LET p1 == Append(WithoutLoads, Op("stop", db, <<>>))
         p2 == IF open THEN Append(p1, Op("cleanup", db, <<>>)) ELSE p1
     IN /\ Len(p2) <= bound.pending
        /\ calls + (IF open THEN 2 ELSE 1) <= bound.calls
        /\ Commit(db, p2, <<>>, obj, destroy(viewTransition), live)
  /\ open' = FALSE
  /\ SetShow(slideShowStop(Running))
  /\ pc' = "off"
  /\ calls' = calls + (IF open THEN 2 ELSE 1)
  /\ hist' = [NoHist EXCEPT !.stops = 1]
  /\ UNCHANGED <<persisted, loop, bound, upload, props>>
  /\ UNCHANGED <<visible, settings>>

\* stop() called again while the plugin is stopped: the same handler runs, the
\* popup is gone already, the unpatchers and the toolbar refresh find nothing.
StopAgain ==
  /\ pc = "off"
  /\ hist.stops = 1
  /\ CanCall(1)
  /\ Commit(db, Append(pending, Op("stop", db, <<>>)), items, obj,
            destroy(viewTransition), live)
  /\ SetShow(slideShowStop(Running))
  /\ calls' = calls + 1
  /\ hist' = [Restarted(hist) EXCEPT !.stops = 2]
  /\ UNCHANGED <<persisted, loop, bound, upload, props>>
  /\ UNCHANGED <<open, visible, settings, pc>>

\* The teardown callback of stop() and its save.
DeliverStop ==
  \E op \in NextOp :
    /\ op.kind = "stop"
    /\ Commit(saveItems(db, ClearAll(op.snap), ClearAll(op.snap)), Done(op),
              items, obj, viewTransition, live \ SrcsOf(op.snap))
    /\ hist' = IF hist.stops > 0 /\ hist.first = <<>>
               THEN [hist EXCEPT !.first = <<db'>>] ELSE hist
    /\ UNCHANGED <<persisted, loop, bound, upload, props>>
    /\ UNCHANGED <<open, interval, host, triggeredWhileHidden, visible, settings, calls, pc>>

\* ------------------------------------------------------------- the popup
\* The popup mounts: useIDB's first effect issues the load.
OpenPopup ==
  /\ pc = "on"
  /\ ~open
  /\ CanCall(1)
  /\ Commit(db, Call("load", <<>>), <<>>, obj, viewTransition, live)
  /\ open' = TRUE
  /\ calls' = calls + 1
  /\ UNCHANGED <<hist, persisted, loop, bound, upload, props>>
  /\ UNCHANGED <<interval, host, triggeredWhileHidden, visible, settings, pc>>

\* The popup unmounts: the effect's cleanup issues its access.
ClosePopup ==
  /\ open
  /\ LET p == Append(WithoutLoads, Op("cleanup", db, <<>>))
     IN /\ Len(p) <= bound.pending
        /\ calls < bound.calls
        /\ Commit(db, p, <<>>, obj, viewTransition, live)
  /\ open' = FALSE
  /\ calls' = calls + 1
  /\ UNCHANGED <<hist, persisted, loop, bound, upload, props>>
  /\ UNCHANGED <<interval, host, triggeredWhileHidden, visible, settings, pc>>

NoSrcItem(e) == e.src = NoSrc

\* The load callback: setItems(storedItems.map(...)), every item without a
\* src gets a new URL; the second effect then issues a save of the list.
DeliverLoad ==
  \E op \in NextOp :
    /\ op.kind = "load"
    /\ open
    /\ LET need == Positions([k \in DOMAIN op.snap |-> NoSrcItem(op.snap[k])], 1)
           fresh == FreshUrls(InUse, Len(need))
           refs == FreshRefs(RefsOf(<<>>, Done(op)), Len(op.snap))
           o == [r \in Refs |->
                   IF r \in Range(refs)
                   THEN LET i == IndexIn(refs, r) IN
                        [op.snap[i] EXCEPT !.src =
                           IF @ = NoSrc THEN fresh[IndexIn(need, i)] ELSE @]
                   ELSE obj[r]]
       IN /\ HasFresh(Len(need))
          /\ Len(refs) = Len(op.snap)
          /\ calls < bound.calls
          /\ Commit(db, Append(Done(op), Op("save", db, refs)), refs, o,
                    viewTransition, live \cup Range(fresh))
    /\ calls' = calls + 1
    /\ UNCHANGED <<hist, persisted, loop, bound, upload, props>>
    /\ UNCHANGED <<open, interval, host, triggeredWhileHidden, visible, settings, pc>>

\* The callback of the save effect: saveItems(db, storeName, items,
\* storedItems) with the items array of the render that issued it, whose
\* objects carry what the handlers have written into them since.
DeliverSave ==
  \E op \in NextOp :
    /\ op.kind = "save"
    /\ Commit(saveItems(db, Deref(obj, op.arr), op.snap), Done(op), items, obj,
              viewTransition, live)
    /\ UNCHANGED <<hist, persisted, loop, bound, upload, props>>
    /\ UNCHANGED <<open, interval, host, triggeredWhileHidden, visible, settings, calls, pc>>

\* The callback of the unmount cleanup and its save.
DeliverCleanup ==
  \E op \in NextOp :
    /\ op.kind = "cleanup"
    /\ Commit(saveItems(db, ClearUnselected(op.snap), ClearUnselected(op.snap)),
              Done(op), items, obj, viewTransition,
              live \ RevokedByCleanup(op.snap))
    /\ UNCHANGED <<hist, persisted, loop, bound, upload, props>>
    /\ UNCHANGED <<open, interval, host, triggeredWhileHidden, visible, settings, calls, pc>>

\* handleSelect(index): every object of the list is written in place.
handleSelect(o, its, index) ==
  [r \in Refs |-> IF r \in Range(its)
                  THEN [o[r] EXCEPT !.selected = (o[r].id = index)] ELSE o[r]]

\* ImageComponent.handleImageClick on the i-th image of the grid.
HandleImageClick(i) ==
  /\ open
  /\ CanCall(1)
  /\ CanSetImage(viewTransition, settings.overwriteCSS)
  /\ LET item == obj[items[i]] IN
     /\ Commit(db, Call("save", items), items, handleSelect(obj, items, item.id),
               setImage(viewTransition, item.src, visible, settings.overwriteCSS),
               live)
  /\ calls' = calls + 1
  /\ UNCHANGED <<hist, persisted, loop, bound, upload, props>>
  /\ UNCHANGED <<open, interval, host, triggeredWhileHidden, visible, settings, pc>>

\* prev.filter(e => e.id !== id): the references that stay, in order.
RECURSIVE Without(_, _, _, _)
Without(o, its, id, i) ==
  IF i > Len(its) THEN <<>>
  ELSE (IF o[its[i]].id # id THEN <<its[i]>> ELSE <<>>) \o Without(o, its, id, i + 1)

\* .map((e, i) => { e.id = i + 1; return e; }): renumbering in place.
Renumber(o, its) ==
  [r \in Refs |-> IF r \in Range(its)
                  THEN [o[r] EXCEPT !.id = IndexIn(its, r)] ELSE o[r]]

\* ImageComponent.handleDelete on the i-th image of the grid.
HandleDelete(i) ==
  /\ open
  /\ CanCall(1)
  /\ LET item == obj[items[i]]
         kept == Without(obj, items, item.id, 1)
     IN /\ Commit(db, Call("save", kept), kept, Renumber(obj, kept),
                  IF item.selected THEN removeImage(viewTransition)
                  ELSE viewTransition,
                  live \ {item.src})
  /\ calls' = calls + 1
  /\ UNCHANGED <<hist, persisted, loop, bound, upload, props>>
  /\ UNCHANGED <<open, interval, host, triggeredWhileHidden, visible, settings, pc>>

\* InputComponent.handleFileTransfer, the image's onload: the decoded blob
\* is appended with the next id and its own URL.
AppendImage ==
  /\ open
  /\ CanCall(1)
  /\ Len(items) < MaxItems
  /\ HasFresh(1)
  /\ HasImage
  /\ LET refs == FreshRefs(RefsOf(items, pending), 1)
         url == FreshUrls(InUse, 1)[1]
     IN /\ Len(refs) = 1
        /\ LET its == Append(items, refs[1])
               o == [obj EXCEPT ![refs[1]] = Item(Len(items) + 1, NewImage, FALSE, url)]
           IN Commit(db, Call("save", its), its, o, viewTransition, live \cup {url})
  /\ calls' = calls + 1
  /\ UNCHANGED <<hist, persisted, loop, bound, props>>
  /\ UNCHANGED <<open, interval, host, triggeredWhileHidden, visible, settings, pc>>

\* A drop or a paste of an image that decodes.
AddImage == AppendImage /\ UNCHANGED upload

\* prev.forEach(e => { e.selected = false; }), in place.
ClearSelected(o, its) ==
  [r \in Refs |-> IF r \in Range(its)
                  THEN [o[r] EXCEPT !.selected = FALSE] ELSE o[r]]

\* InputComponent.handleRemove: "Remove Custom Background".
HandleRemove ==
  /\ open
  /\ CanCall(1)
  /\ Commit(db, Call("save", items), items, ClearSelected(obj, items),
            removeImage(viewTransition), live)
  /\ calls' = calls + 1
  /\ UNCHANGED <<hist, persisted, loop, bound, upload, props>>
  /\ UNCHANGED <<open, interval, host, triggeredWhileHidden, visible, settings, pc>>

\* ---------------------------------------------- context menu and slideshow
\* BuildMenuItem's action, from the image's onload on: the access is issued.
CtxAdd ==
  /\ pc = "on"
  /\ CanCall(1)
  /\ Commit(db, Call("ctx", <<>>), items, obj, viewTransition, live)
  /\ calls' = calls + 1
  /\ UNCHANGED <<hist, persisted, loop, bound, upload, props>>
  /\ UNCHANGED <<open, interval, host, triggeredWhileHidden, visible, settings, pc>>

DeliverCtx ==
  \E op \in NextOp :
    /\ op.kind = "ctx"
    /\ Len(op.snap) < MaxItems
    /\ HasImage
    /\ LET newItems == PushItem(op.snap, NewImage) IN
       Commit(saveItems(db, newItems, newItems), Done(op), items, obj,
              viewTransition, live)
    /\ UNCHANGED <<hist, persisted, loop, bound, upload, props>>
    /\ UNCHANGED <<open, interval, host, triggeredWhileHidden, visible, settings, calls, pc>>

\* The interval callback, up to the call of setImageFromIDB.  While the
\* host is hidden only the first tick goes on.
\* A tick that finds the host hidden goes on once.
SkipsAll(hidden, triggered) == hidden

Skips(hidden, triggered) == hidden /\ triggered

Tick ==
  /\ host.timers # {}
  /\ IF Skips(~visible, triggeredWhileHidden)
     THEN /\ UNCHANGED <<db, pending, items, obj, viewTransition, live,
                         triggeredWhileHidden, calls>>
     ELSE /\ CanCall(1)
          /\ Commit(db, Call("tick", <<>>), items, obj, viewTransition, live)
          /\ triggeredWhileHidden' = (~visible \/ triggeredWhileHidden)
          /\ calls' = calls + 1
  /\ hist' = Ticked(hist, ~visible, ~Skips(~visible, triggeredWhileHidden))
  /\ UNCHANGED <<persisted, loop, bound, upload, props>>
  /\ UNCHANGED <<open, interval, host, visible, settings, pc>>

\* The tick's callback and its save.  x and rnd are the values Math.random
\* gives to the shuffle and to the sequential branch.
DeliverTick ==
  \E op \in NextOp :
    /\ op.kind = "tick"
    /\ \E x \in 0..Len(op.snap), rnd \in 0..Len(op.snap) :
         /\ (Len(op.snap) > 0) => (x < Len(op.snap) /\ rnd < Len(op.snap))
         /\ (Len(op.snap) = 0) => (x = 0 /\ rnd = 0)
         /\ LET targets == IF Len(op.snap) = 0 THEN {}
                           ELSE TickTargets(op.snap, settings.shuffle, x, rnd)
                makeUrl == ~open /\ targets # {}
                fresh == FreshUrls(InUse, IF makeUrl THEN 1 ELSE 0)
                newItems == TickItems(op.snap, targets, open, fresh)
                shown == {newItems[i].src : i \in targets}
                v == IF targets = {} THEN viewTransition
                     ELSE setImage(viewTransition, CHOOSE u \in shown : TRUE,
                                   visible, settings.overwriteCSS)
            IN /\ makeUrl => HasFresh(1)
               /\ targets # {} => CanSetImage(viewTransition, settings.overwriteCSS)
               /\ Commit(saveItems(db, newItems, newItems), Done(op), items, obj, v,
                         IF open THEN live
                         ELSE (live \ SrcsOf(op.snap)) \cup Range(fresh))
    /\ hist' = [hist EXCEPT !.failed = IF @ = 1 THEN 2 ELSE @]
    /\ UNCHANGED <<persisted, loop, bound, upload, props>>
    /\ UNCHANGED <<open, interval, host, triggeredWhileHidden, visible, settings, calls, pc>>

\* A catch handler that gives the slideshow up.
CaughtStops(show) == slideShowStop(show)

\* The catch handler of setImageFromIDB logs the error.
Caught(show) == show

\* openDB or getAllItems rejects for a tick: the callback and the save are
\* skipped, the catch handler runs.
TickFails ==
  \E op \in NextOp :
    /\ op.kind = "tick"
    /\ Commit(db, Done(op), items, obj, viewTransition, live)
    /\ interval' = Caught(Running).interval
    /\ host' = [host EXCEPT !.timers = Caught(Running).timers]
    /\ hist' = [hist EXCEPT !.failed = IF @ = 0 THEN 1 ELSE @]
    /\ UNCHANGED <<persisted, loop, bound, upload, props>>
    /\ UNCHANGED <<open, triggeredWhileHidden, visible, settings, calls, pc>>

\* The shuffle branch is entered with n > 2 items and currentIndex cur.
MaxShuffle == 3

ShuffleBegin ==
  /\ loop.at = "idle"
  /\ \E n \in 3..MaxShuffle, cur \in -1..(MaxShuffle - 1) :
       /\ cur < n
       /\ loop' = [NoLoop EXCEPT !.at = "draw", !.n = n, !.cur = cur]
  /\ UNCHANGED <<hist, persisted, bound, upload, props>>
  /\ UNCHANGED <<db, pending, open, items, obj, live, viewTransition, interval,
                 host, triggeredWhileHidden, visible, settings, calls, pc>>

\* One pass of the do-while: a draw, then the test; counter++ is evaluated
\* only when the draw equals currentIndex.
ShuffleDraw ==
  /\ loop.at = "draw"
  /\ \E r \in 0..(loop.n - 1) :
       loop' = [loop EXCEPT
                  !.x = r,
                  !.draws = @ + 1,
                  !.differed = IF r # loop.cur THEN @ + 1 ELSE @,
                  !.counter = IF r = loop.cur THEN @ + 1 ELSE @,
                  !.at = IF Repeats(r, loop.cur, loop.counter)
                         THEN "draw" ELSE "done"]
  /\ UNCHANGED <<hist, persisted, bound, upload, props>>
  /\ UNCHANGED <<db, pending, open, items, obj, live, viewTransition, interval,
                 host, triggeredWhileHidden, visible, settings, calls, pc>>

\* A deferred override update fires.
TimerFires ==
  \E t \in viewTransition.timeouts :
    /\ Commit(db, pending, items, obj,
              [viewTransition EXCEPT !.style = t.src, !.timer = NoTimer,
                                     !.timeouts = @ \ {t}],
              live)
    /\ UNCHANGED <<hist, persisted, loop, bound, upload, props>>
    /\ UNCHANGED <<open, interval, host, triggeredWhileHidden, visible, settings, calls, pc>>

\* The host is hidden or shown; handleVisibilityChange listens while the
\* slideshow runs.
VisibilityChange ==
  /\ visible' = ~visible
  /\ triggeredWhileHidden' =
       (triggeredWhileHidden /\ ~(interval # NoTimer /\ ~visible))
  /\ hist' = Restarted(hist)
  /\ UNCHANGED <<persisted, loop, bound, upload, props>>
  /\ UNCHANGED <<db, pending, open, items, obj, live, viewTransition, interval, host,
                 settings, calls, pc>>

\* BuildSettings, "Enable Slideshow": the slideshow starts or stops at once.
ToggleSlideshow ==
  /\ pc = "on"
  /\ settings' = [settings EXCEPT !.slideshowEnabled = ~@]
  /\ IF settings.slideshowEnabled
     THEN SetShow(slideShowStop(Running))
     ELSE CanStart /\ SetShow(slideShowStart(Running, settings))
  /\ hist' = Restarted(hist)
  /\ UNCHANGED <<persisted, loop, bound, upload, props>>
  /\ UNCHANGED <<db, pending, open, items, obj, live, viewTransition, visible,
                 calls, pc>>

\* The intervals the number inputs are given, in ms.
Intervals == {60000}

MaxUpdates == 1

\* React runs the updater given to setSettings at once when the component
\* has no update pending, and else queues it for the next render.
CanRunEagerly == host.updates = <<>>

CanQueue == Len(host.updates) < MaxUpdates

\* BuildSettings, "Slideshow Interval": setSetting(updater), then
\* slideShowManager.start(), which reads constants.settings.
SetInterval ==
  /\ pc = "on"
  /\ settings.slideshowEnabled
  /\ CanStart
  /\ \E newVal \in Intervals, eager \in BOOLEAN :
       LET updated == [settings EXCEPT !.interval = newVal] IN
       IF eager
       THEN /\ CanRunEagerly
            /\ settings' = updated
            /\ SetShow(slideShowStart(Running, updated))
       ELSE /\ CanQueue
            /\ settings' = settings
            /\ LET r == slideShowStart(Running, settings) IN
               /\ interval' = r.interval
               /\ triggeredWhileHidden' = r.triggeredWhileHidden
               /\ host' = [timers |-> r.timers,
                           updates |-> Append(host.updates, newVal)]
  /\ hist' = Restarted(hist)
  /\ UNCHANGED <<persisted, loop, bound, upload, props>>
  /\ UNCHANGED <<db, pending, open, items, obj, live, viewTransition, visible,
                 calls, pc>>

\* The next render runs the queued updaters: constants.settings gets the
\* interval of each in turn.
Render ==
  /\ host.updates # <<>>
  /\ settings' = [settings EXCEPT !.interval = host.updates[Len(host.updates)]]
  /\ host' = [host EXCEPT !.updates = <<>>]
  /\ UNCHANGED <<hist, persisted, loop, bound, upload, props>>
  /\ UNCHANGED <<db, pending, open, items, obj, live, viewTransition, interval,
                 triggeredWhileHidden, visible, calls, pc>>

\* BuildSettings, "Shuffle Slideshow".
ToggleShuffle ==
  /\ pc = "on"
  /\ settings' = [settings EXCEPT !.shuffle = ~@]
  /\ UNCHANGED <<hist, persisted, loop, bound, upload, props>>
  /\ UNCHANGED <<db, pending, open, items, obj, live, viewTransition, interval, host,
                 triggeredWhileHidden, visible, calls, pc>>

\* ------------------------------------------------------------ the upload
\* A pattern byte that matches any byte (null in the table).
Null == -1

\* The table of getImageType, in its order.
mimeTypes ==
  << [mime |-> "image/png", pattern |-> <<137, 80, 78, 71>>],
     [mime |-> "image/jpeg", pattern |-> <<255, 216, 255>>],
     [mime |-> "image/bmp", pattern |-> <<66, 77>>],
     [mime |-> "image/gif", pattern |-> <<71, 73, 70, 56>>],
     [mime |-> "image/avif",
      pattern |-> <<0, 0, 0, Null, 102, 116, 121, 112, 97, 118, 105, 102>>],
     [mime |-> "image/webp",
      pattern |-> <<82, 73, 70, 70, Null, Null, Null, Null, 87, 69, 66, 80>>],
     [mime |-> "image/svg+xml", pattern |-> <<60, 115, 118, 103>>],
     [mime |-> "image/x-icon", pattern |-> <<0, 0, 1, 0>>] >>

\* A matching that lets a position past the end of the buffer match.
RECURSIVE EveryLenient(_, _, _)
EveryLenient(pattern, buffer, i) ==
  IF i > Len(pattern) THEN TRUE
  ELSE /\ \/ pattern[i] = Null
          \/ i \notin DOMAIN buffer
          \/ pattern[i] = buffer[i]
       /\ EveryLenient(pattern, buffer, i + 1)

\* pattern.every((e, i) => e === null || e === buffer[i]): a position past
\* the end of the buffer reads undefined, which equals no pattern byte.
RECURSIVE Every(_, _, _)
Every(pattern, buffer, i) ==
  IF i > Len(pattern) THEN TRUE
  ELSE /\ \/ pattern[i] = Null
          \/ (i \in DOMAIN buffer /\ pattern[i] = buffer[i])
       /\ Every(pattern, buffer, i + 1)

\* The loop over the table: the mime of the first entry that matches.
RECURSIVE FirstMime(_, _)
FirstMime(buffer, k) ==
  IF k > Len(mimeTypes) THEN ""
  ELSE IF Every(mimeTypes[k].pattern, buffer, 1) THEN mimeTypes[k].mime
  ELSE FirstMime(buffer, k + 1)

getImageType(buffer) == FirstMime(buffer, 1)

\* The extensions handleUpload accepts.
Extensions ==
  {"png", "jpg", "jpeg", "jpe", "jfif", "exif", "bmp", "dib", "rle", "gif",
   "avif", "webp", "svg", "ico"}

\* The files of the runs.  data: the leading bytes of the file, all of them
\* when the file is shorter than a signature; present: the file manager
\* delivered data; intact: the browser decodes the file.
Filled(pattern) == [i \in DOMAIN pattern |-> IF pattern[i] = Null THEN 28 ELSE pattern[i]]

Front(b) == SubSeq(b, 1, Len(b) - 1)

Exts == {"png", "jpg", "txt"}

File(data, present, ext, intact) ==
  [data |-> data, present |-> present, ext |-> ext, intact |-> intact]

\* Files that begin with a signature of the table.
SignedFiles ==
  {File(Filled(mimeTypes[k].pattern) \o <<224>>, TRUE, e, ok) :
     k \in DOMAIN mimeTypes, e \in Exts, ok \in BOOLEAN}

\* Files that end one byte before the end of a signature, and the empty file.
ShortFiles ==
  {File(Front(Filled(mimeTypes[k].pattern)), TRUE, e, FALSE) :
     k \in DOMAIN mimeTypes, e \in Exts}
    \cup {File(<<>>, TRUE, e, FALSE) : e \in Exts}

\* Files of formats the table does not list: an AVIF image sequence (brand
\* avis) and a cursor, which the browser decodes, and a PDF, which it does
\* not.
OtherFiles ==
  {File(<<0, 0, 0, 28, 102, 116, 121, 112, 97, 118, 105, 115>>, TRUE, e, ok) :
     e \in Exts, ok \in BOOLEAN}
    \cup {File(<<0, 0, 2, 0>>, TRUE, e, ok) : e \in Exts, ok \in BOOLEAN}
    \cup {File(<<37, 80, 68, 70>>, TRUE, e, FALSE) : e \in Exts}

\* Files the file manager delivers without data.
MissingFiles == {File(<<>>, FALSE, e, FALSE) : e \in Exts}

Files == SignedFiles \cup ShortFiles \cup OtherFiles \cup MissingFiles

\* InputComponent.handleUpload, for one file of the selection: a file
\* without data, or with an extension that is not listed, is reported with
\* an error toast; any other file becomes a Blob typed by getImageType and
\* goes to handleFileTransfer, which starts to decode it.
HandleUpload(f) ==
  /\ open
  /\ upload.stage # "decoding"
  /\ upload' = IF ~f.present \/ f.ext \notin Extensions
               THEN [stage |-> "rejected", file |-> f, type |-> ""]
               ELSE [stage |-> "decoding", file |-> f, type |-> getImageType(f.data)]
  /\ UNCHANGED <<db, pending, open, items, obj, live, viewTransition, interval, host,
                 triggeredWhileHidden, visible, settings, calls, persisted, loop, bound, props, hist, pc>>

\* handleFileTransfer, img.onload: the blob is appended.  The URL of the
\* image under decoding enters the model here.
ImgOnload ==
  /\ upload.stage = "decoding"
  /\ upload.file.intact
  /\ AppendImage
  /\ upload' = [upload EXCEPT !.stage = "added"]

\* handleFileTransfer, img.onerror: the URL is revoked, nothing is reported.
ImgOnerror ==
  /\ upload.stage = "decoding"
  /\ ~upload.file.intact
  /\ upload' = [upload EXCEPT !.stage = "dropped"]
  /\ UNCHANGED <<db, pending, open, items, obj, live, viewTransition, interval, host,
                 triggeredWhileHidden, visible, settings, calls, persisted, loop, bound, props, hist, pc>>

\* ------------------------------------------- BackgroundLibrary (v1.0.0)
\* The earlier plugin keeps the same store and popup, with three differences
\* the actions below follow: saveItems renumbers the items it is given, in
\* place, and persists a src only for the selected item; the images of the
\* grid call the handlers with the id they were rendered with; and an
\* upload appends its accepted files in one update.

\* saveItems of BackgroundLibrary: the ids are taken before the renumbering,
\* the records are written under their position.
saveItemsLib(store, newItems, prevItems) ==
  LET renum == [i \in DOMAIN newItems |->
                  [newItems[i] EXCEPT !.id = i,
                                      !.src = IF newItems[i].selected THEN @ ELSE NoSrc]]
      w == WriteItems(store, renum, Ids(prevItems), 1)
  IN IF w.ok THEN DeleteItems(w.store, prevItems, Ids(newItems), 1) ELSE store

\* updateImage(imageItem): the style carries the image when a CSS variable
\* is found or configured, and is removed otherwise.
updateImage(v, src) == [v EXCEPT !.style = IF v.property THEN src ELSE NoStyle]

removeStyle(v) == [v EXCEPT !.style = NoStyle]

RECURSIVE FreshImages(_, _)
FreshImages(used, n) ==
  IF n = 0 THEN <<>>
  ELSE IF Images \ used = {} THEN <<>>
  ELSE LET m == CHOOSE x \in Images \ used : \A y \in Images \ used : x <= y
           rest == FreshImages(used \cup {m}, n - 1)
       IN IF Len(rest) = n - 1 THEN <<m>> \o rest ELSE <<>>

IdsOf(o, its) == [i \in DOMAIN its |-> o[its[i]].id]

\* start(): setImageFromIDB() without a callback is issued and the toolbar
\* button is added.
LibStart ==
  /\ pc = "off"
  /\ CanCall(1)
  /\ Commit(db, Call("lstart", <<>>), items, obj, viewTransition, live)
  /\ calls' = calls + 1
  /\ pc' = "on"
  /\ UNCHANGED <<open, interval, host, triggeredWhileHidden, visible, settings>>
  /\ UNCHANGED <<hist, persisted, loop, bound, upload, props>>

\* Its callback: every selected item gets a new URL and is presented, every
\* other src is cleared; then the save.  prop: the theme has a variable.
DeliverLibStart ==
  \E op \in NextOp, prop \in BOOLEAN :
    /\ op.kind = "lstart"
    /\ LET sel == Positions([k \in DOMAIN op.snap |-> IsSelected(op.snap[k])], 1)
           fresh == FreshUrls(InUse, Len(sel))
           newItems == Reconcile(op.snap, fresh)
           v0 == [viewTransition EXCEPT !.property = prop]
           v == IF sel = <<>> THEN v0
                ELSE updateImage(v0, newItems[sel[Len(sel)]].src)
       IN /\ HasFresh(Len(sel))
          /\ Commit(saveItemsLib(db, newItems, newItems), Done(op), items, obj, v,
                    live \cup Range(fresh))
    /\ UNCHANGED <<open, interval, host, triggeredWhileHidden, visible, settings, calls, pc>>
    /\ UNCHANGED <<hist, persisted, loop, bound, upload, props>>

\* The popup mounts: the first effect of useIDB issues the load.
LibOpenPopup ==
  /\ pc = "on"
  /\ ~open
  /\ CanCall(1)
  /\ Commit(db, Call("lload", <<>>), <<>>, obj, viewTransition, live)
  /\ calls' = calls + 1
  /\ open' = TRUE
  /\ props' = <<>>
  /\ UNCHANGED <<interval, host, triggeredWhileHidden, visible, settings, pc>>
  /\ UNCHANGED <<hist, persisted, loop, bound, upload>>

\* The load callback: setItems, every item without a src gets a new URL.
\* The second effect has run twice by now and issues no save.
DeliverLibLoad ==
  \E op \in NextOp :
    /\ op.kind = "lload"
    /\ open
    /\ LET need == Positions([k \in DOMAIN op.snap |-> NoSrcItem(op.snap[k])], 1)
           fresh == FreshUrls(InUse, Len(need))
           refs == FreshRefs(RefsOf(<<>>, Done(op)), Len(op.snap))
           o == [r \in Refs |->
                   IF r \in Range(refs)
                   THEN LET i == IndexIn(refs, r) IN
                        [op.snap[i] EXCEPT !.src =
                           IF @ = NoSrc THEN fresh[IndexIn(need, i)] ELSE @]
                   ELSE obj[r]]
       IN /\ HasFresh(Len(need))
          /\ Len(refs) = Len(op.snap)
          /\ Commit(db, Done(op), refs, o, viewTransition, live \cup Range(fresh))
          /\ props' = IdsOf(o, refs)
    /\ UNCHANGED <<open, interval, host, triggeredWhileHidden, visible, settings, calls, pc>>
    /\ UNCHANGED <<hist, persisted, loop, bound, upload>>

\* The list of the popup is shown: its load has been delivered.
LibLoaded == open /\ \A q \in PendingOps : q.kind # "lload"

MaxBatch == 2

\* An upload batch: for each chosen file, whether it is accepted (it has
\* data and a listed extension).
Batches == UNION {[1..n -> BOOLEAN] : n \in 1..MaxBatch}

Accepted(batch) == Positions(batch, 1)

\* InputComponent.handleUpload and LibraryBody.handleUpload: a rejected file
\* is reported and skipped; an accepted file is pushed with its index in the
\* batch plus one as id, and the list's length is added to every id.
\* handleFileTransfer (drop, paste) appends as a batch of one accepted file.
LibUpload(batch) ==
  /\ LibLoaded
  /\ CanCall(1)
  /\ LET ok == Accepted(batch)
         n == Len(ok)
         refs == FreshRefs(RefsOf(items, pending), n)
         urls == FreshUrls(InUse, n)
         imgs == FreshImages(UsedImages, n)
         its == items \o refs
         o == [r \in Refs |->
                 IF r \in Range(refs)
                 THEN LET k == IndexIn(refs, r)
                      IN Item(ok[k] + Len(items), imgs[k], FALSE, urls[k])
                 ELSE obj[r]]
     IN /\ Len(items) + n <= MaxItems
        /\ Len(refs) = n /\ Len(urls) = n /\ Len(imgs) = n
        /\ Commit(db, Call("lsave", its), its, o, viewTransition, live \cup Range(urls))
        /\ props' = IdsOf(o, its)
  /\ calls' = calls + 1
  /\ UNCHANGED <<open, interval, host, triggeredWhileHidden, visible, settings, pc>>
  /\ UNCHANGED <<hist, persisted, loop, bound, upload>>

\* ImageComponent.handleImageClick: onSelect with the id of the props, then
\* updateImage with the item.
LibClick(i) ==
  /\ LibLoaded
  /\ CanCall(1)
  /\ LET o == handleSelect(obj, items, props[i])
     IN /\ Commit(db, Call("lsave", items), items, o,
                  updateImage(viewTransition, obj[items[i]].src), live)
        /\ props' = IdsOf(o, items)
  /\ calls' = calls + 1
  /\ UNCHANGED <<open, interval, host, triggeredWhileHidden, visible, settings, pc>>
  /\ UNCHANGED <<hist, persisted, loop, bound, upload>>

\* ImageComponent.handleDelete: the item's URL is revoked, onDelete is called
\* with the id of the props, and the style goes when the item was selected.
LibDelete(i) ==
  /\ LibLoaded
  /\ CanCall(1)
  /\ LET item == obj[items[i]]
         kept == Without(obj, items, props[i], 1)
         o == Renumber(obj, kept)
     IN /\ Commit(db, Call("lsave", kept), kept, o,
                  IF item.selected THEN removeStyle(viewTransition) ELSE viewTransition,
                  live \ {item.src})
        /\ props' = IdsOf(o, kept)
  /\ calls' = calls + 1
  /\ UNCHANGED <<open, interval, host, triggeredWhileHidden, visible, settings, pc>>
  /\ UNCHANGED <<hist, persisted, loop, bound, upload>>

\* The save effect's callback: saveItems with the list of the render that
\* issued it; the renumbering reaches the popup's objects, not its props.
DeliverLibSave ==
  \E op \in NextOp :
    /\ op.kind = "lsave"
    /\ Commit(saveItemsLib(db, Deref(obj, op.arr), op.snap), Done(op), items,
              Renumber(obj, op.arr), viewTransition, live)
    /\ UNCHANGED <<open, interval, host, triggeredWhileHidden, visible, settings, calls, pc>>
    /\ UNCHANGED <<hist, persisted, loop, bound, upload, props>>

NotLibLoad(q) == q.kind # "lload"

\* The popup unmounts: the URL of every item that is not selected is revoked
\* and its src cleared, in place; a load not yet delivered is dropped.
LibClosePopup ==
  /\ open
  /\ LET o == [r \in Refs |->
                 IF r \in Range(items) /\ ~obj[r].selected
                 THEN [obj[r] EXCEPT !.src = NoSrc] ELSE obj[r]]
     IN Commit(db, SelectSeq(pending, NotLibLoad), <<>>, o, viewTransition,
               live \ RevokedByCleanup(Deref(obj, items)))
  /\ open' = FALSE
  /\ props' = <<>>
  /\ UNCHANGED <<interval, host, triggeredWhileHidden, visible, settings, calls, pc>>
  /\ UNCHANGED <<hist, persisted, loop, bound, upload>>

\* ---------------------------------------------------------- specifications
\* The plugin is enabled, and then the popup, the context menu and the
\* slideshow work on the store.
Next ==
  \/ Start
  \/ DeliverReconcile
  \/ DeliverApply
  \/ OpenPopup
  \/ ClosePopup
  \/ DeliverLoad
  \/ DeliverSave
  \/ DeliverCleanup
  \/ \E i \in DOMAIN items : HandleImageClick(i)
  \/ \E i \in DOMAIN items : HandleDelete(i)
  \/ AddImage
  \/ HandleRemove
  \/ CtxAdd
  \/ DeliverCtx
  \/ ToggleSlideshow
  \/ Tick
  \/ DeliverTick
  \/ TimerFires

Spec == Init /\ [][Next]_vars

\* The plugin is enabled, disabled and enabled again around a popup session.
InitLife ==
  InitWith(StoredLists, {defaultSettings},
           [calls |-> MaxLifeCalls, pending |-> MaxLifePending])

NextLife ==
  \/ Start
  \/ DeliverReconcile
  \/ DeliverApply
  \/ Stop
  \/ DeliverStop
  \/ OpenPopup
  \/ DeliverLoad
  \/ DeliverSave
  \/ DeliverCleanup
  \/ \E i \in DOMAIN items : HandleImageClick(i)
  \/ AddImage
  \/ TimerFires

SpecLife == InitLife /\ [][NextLife]_vars

\* The lifecycle with stop() called a second time.
MaxStopCalls == 8

InitStop ==
  InitWith(StoredLists, {defaultSettings},
           [calls |-> MaxStopCalls, pending |-> MaxLifePending])

NextStop ==
  \/ Start
  \/ DeliverReconcile
  \/ DeliverApply
  \/ Stop
  \/ StopAgain
  \/ DeliverStop
  \/ OpenPopup
  \/ DeliverLoad
  \/ DeliverSave
  \/ DeliverCleanup
  \/ \E i \in DOMAIN items : HandleImageClick(i)
  \/ AddImage

SpecStop == InitStop /\ [][NextStop]_vars

\* stop() while the slideshow runs and the theme override is on.
InitHalt ==
  InitWith({<<Item(1, 1, TRUE, NoSrc)>>,
            <<Item(1, 1, TRUE, NoSrc), Item(2, 2, FALSE, NoSrc)>>},
           {[defaultSettings EXCEPT !.slideshowEnabled = TRUE]},
           [calls |-> MaxStopCalls, pending |-> MaxLifePending])

NextHalt ==
  \/ Start
  \/ DeliverReconcile
  \/ DeliverApply
  \/ Tick
  \/ DeliverTick
  \/ VisibilityChange
  \/ TimerFires
  \/ Stop
  \/ DeliverStop

SpecHalt == InitHalt /\ [][NextHalt]_vars

\* The slideshow: the rotation timer, its settings and the host's visibility.
MaxShow == 3

MaxShowCalls == 4

ShowLists ==
  {[i \in 1..n |-> Item(i, i, i = sel, NoSrc)] : n \in 0..MaxShow, sel \in 0..MaxShow}

InitShow ==
  InitWith(ShowLists,
           {[defaultSettings EXCEPT !.slideshowEnabled = TRUE, !.shuffle = sh,
                                    !.interval = i, !.overwriteCSS = FALSE] :
              sh \in BOOLEAN, i \in {1000}},
           [calls |-> MaxShowCalls, pending |-> 1])

NextShow ==
  \/ Start
  \/ DeliverReconcile
  \/ DeliverApply
  \/ ToggleSlideshow
  \/ SetInterval
  \/ Render
  \/ VisibilityChange
  \/ Tick
  \/ DeliverTick
  \/ TickFails

SpecShow == InitShow /\ [][NextShow]_vars

\* ------------------------------------------------ the configuration load
\* defaultSettings in full.
allDefaults ==
  [enableDrop |-> FALSE,
   transition |-> [enabled |-> TRUE, duration |-> 1000],
   slideshow |-> [enabled |-> FALSE, interval |-> 300000, shuffle |-> TRUE],
   overwriteCSS |-> TRUE,
   adjustment |-> [xPosition |-> 0, yPosition |-> 0, dimming |-> 0, blur |-> 0,
                   grayscale |-> 0, saturate |-> 100, contrast |-> 100],
   addContextMenu |-> TRUE]

Groups == {"transition", "slideshow", "adjustment"}

\* { ...a, ...b }
Spread(a, b) ==
  [k \in DOMAIN a \cup DOMAIN b |-> IF k \in DOMAIN b THEN b[k] ELSE a[k]]

\* configs?.[g], and undefined spreads as no key.
Group(configs, g) == IF g \in DOMAIN configs THEN configs[g] ELSE <<>>

\* A load that takes a saved group as it is.
loadShallow(configs) == Spread(allDefaults, configs)

\* The settings start() gives to constants from the saved configuration.
loadSettings(configs) ==
  LET top == Spread(allDefaults, configs) IN
  [k \in DOMAIN top |->
     IF k \in Groups THEN Spread(allDefaults[k], Group(configs, k)) ELSE top[k]]

\* A saved configuration whose every value differs from the default.
changed ==
  [enableDrop |-> TRUE,
   transition |-> [enabled |-> FALSE, duration |-> 250],
   slideshow |-> [enabled |-> TRUE, interval |-> 60000, shuffle |-> FALSE],
   overwriteCSS |-> FALSE,
   adjustment |-> [xPosition |-> 10, yPosition |-> 10, dimming |-> 1, blur |-> 1,
                   grayscale |-> 1, saturate |-> 50, contrast |-> 50],
   addContextMenu |-> FALSE]

MaxAdjust == 1

\* What may be saved for a group: nothing, or some of its keys; of the
\* adjustment group MaxAdjust keys at most.
SavedGroups(g) ==
  {{}} \cup {{[k \in D |-> changed[g][k]]} :
              D \in {E \in SUBSET DOMAIN changed[g] :
                       g = "adjustment" => Cardinality(E) <= MaxAdjust}}

SavedConfigs ==
  {[k \in D \cup {g \in Groups : grp[g] # {}} |->
      IF k \in Groups THEN CHOOSE o \in grp[k] : TRUE ELSE changed[k]] :
     D \in SUBSET (DOMAIN changed \ Groups),
     grp \in {f \in [Groups -> UNION {SavedGroups(g) : g \in Groups}] :
                \A g \in Groups : f[g] \in SavedGroups(g)}}

\* start(): Data.load and the merge with the defaults.
LoadSettings ==
  /\ pc = "off"
  /\ settings = <<>>
  /\ settings' = loadSettings(persisted)
  /\ UNCHANGED <<hist, persisted, loop, bound, upload, props>>
  /\ UNCHANGED <<db, pending, open, items, obj, live, viewTransition, interval,
                 host, triggeredWhileHidden, visible, calls, pc>>

InitLoad ==
  InitFrom({<<>>}, {<<>>}, [calls |-> 0, pending |-> 0], SavedConfigs)

SpecLoad == InitLoad /\ [][LoadSettings]_vars

InitShuffle ==
  InitWith({<<>>}, {defaultSettings}, [calls |-> 0, pending |-> 0])

NextShuffle == ShuffleBegin \/ ShuffleDraw

SpecShuffle == InitShuffle /\ [][NextShuffle]_vars

\* One image is stored and selected, the slideshow is enabled and the theme
\* override is off; the popup is opened, closed and opened again.
InitDeep ==
  InitWith({<<Item(1, 1, TRUE, NoSrc)>>},
           {[defaultSettings EXCEPT !.slideshowEnabled = TRUE,
                                    !.overwriteCSS = FALSE]},
           [calls |-> MaxDeepCalls, pending |-> MaxPending])

NextDeep ==
  \/ Start
  \/ DeliverReconcile
  \/ DeliverApply
  \/ OpenPopup
  \/ ClosePopup
  \/ DeliverLoad
  \/ DeliverSave
  \/ DeliverCleanup
  \/ \E i \in DOMAIN items : HandleImageClick(i)
  \/ \E i \in DOMAIN items : HandleDelete(i)
  \/ CtxAdd
  \/ DeliverCtx
  \/ Tick
  \/ DeliverTick

SpecDeep == InitDeep /\ [][NextDeep]_vars

MaxLibCalls == 6

MaxLibPending == 3

InitLib ==
  InitWith(StoredLists, {defaultSettings},
           [calls |-> MaxLibCalls, pending |-> MaxLibPending])

NextLib ==
  \/ LibStart
  \/ DeliverLibStart
  \/ LibOpenPopup
  \/ DeliverLibLoad
  \/ \E batch \in Batches : LibUpload(batch)
  \/ \E i \in DOMAIN items : LibClick(i)
  \/ \E i \in DOMAIN items : LibDelete(i)
  \/ DeliverLibSave
  \/ LibClosePopup

SpecLib == InitLib /\ [][NextLib]_vars

MaxUploadCalls == 5

InitUpload ==
  InitWith(StoredLists, {defaultSettings},
           [calls |-> MaxUploadCalls, pending |-> MaxPending])

NextUpload ==
  \/ Start
  \/ DeliverReconcile
  \/ DeliverApply
  \/ OpenPopup
  \/ DeliverLoad
  \/ DeliverSave
  \/ \E f \in Files : HandleUpload(f)
  \/ ImgOnload
  \/ ImgOnerror

SpecUpload == InitUpload /\ [][NextUpload]_vars

\* ------------------------------------------------------------------ claims
NumSelected(s) == Cardinality({i \in DOMAIN s : s[i].selected})

\* C1: in every reachable state the popup's in-memory list and the persisted
\* store each hold at most one item with selected = true.
C1_AtMostOneSelected == NumSelected(images) <= 1 /\ NumSelected(db) <= 1

Dense(s) == \A i \in DOMAIN s : s[i].id = i

\* C2: every item of the image list, in memory and as persisted, has the id
\* position + 1.
C2_DenseIds == Dense(images) /\ Dense(db)

Inactive(v) == \A k \in DOMAIN v.domBG : ~v.domBG[k].active

\* C6: a delete of the selected item leaves no item selected, no background
\* buffer active and no theme override; a delete of an item that is not
\* selected leaves the presentation as it is.
C6_DeleteClears ==
  [][\A i \in DOMAIN items :
       HandleDelete(i) =>
         IF images[i].selected
         THEN /\ NumSelected(images') = 0
              /\ Inactive(viewTransition')
              /\ viewTransition'.style = NoStyle
         ELSE viewTransition' = viewTransition]_vars

\* An item without its display handle: id, payload and selected flag.
Strip(s) == [i \in DOMAIN s |-> [id |-> s[i].id, image |-> s[i].image,
                                 selected |-> s[i].selected]]

NoHandles(s) == \A i \in DOMAIN s : s[i].src = NoSrc

\* C9: when the reconcile step of start() completes, every persisted item
\* that is not selected has no handle, the selected one has a handle created
\* by the step and different from every handle persisted before, and ids,
\* payloads and selected flags are as before the step.
C9_Reconcile ==
  [][DeliverReconcile =>
       /\ \A i \in DOMAIN db' :
            IF db'[i].selected
            THEN db'[i].src \in live' \ (live \cup SrcsOf(db))
            ELSE db'[i].src = NoSrc
       /\ Strip(db') = Strip(db)]_vars

StopPending == \E q \in PendingOps : q.kind = "stop"

\* C10: once stop() has run and its write is complete, no persisted item has
\* a handle; the write releases every handle that was persisted and changes
\* no id, payload or selected flag.
C10_Teardown ==
  [][/\ (pc' = "off" /\ ~StopPending') => NoHandles(db')
     /\ DeliverStop => (live' \cap SrcsOf(db) = {} /\ Strip(db') = Strip(db))]_vars

Selected(s) == {i \in DOMAIN s : s[i].selected}

Unflagged(s) == [i \in DOMAIN s |-> [id |-> s[i].id, image |-> s[i].image]]

Carried(s, id) == {k \in DOMAIN s : s[k].id = id}

\* C3: selecting an id that some item carries leaves exactly that item
\* selected and changes no id, no payload and no position.
C3_SelectExact ==
  [][\A i \in DOMAIN items :
       (LibClick(i) /\ Carried(images, props[i]) # {}) =>
         /\ \E k \in Carried(images, props[i]) : Selected(images') = {k}
         /\ Unflagged(images') = Unflagged(images)]_vars

\* C4: selecting an id that no item carries changes no selected flag.
C4_SelectMissing ==
  [][\A i \in DOMAIN items :
       (LibClick(i) /\ Carried(images, props[i]) = {}) =>
         /\ Selected(images') = Selected(images)
         /\ db' = db]_vars

RemoveAt(s, k) ==
  [j \in 1..(Len(s) - 1) |-> [(IF j < k THEN s[j] ELSE s[j + 1]) EXCEPT !.id = j]]

\* C5: removing an id that some item carries deletes exactly that item, keeps
\* the order, payload and selected flag of the others, and renumbers them
\* 1..n-1.
C5_RemoveExact ==
  [][\A i \in DOMAIN items :
       (LibDelete(i) /\ Carried(images, props[i]) # {}) =>
         \E k \in Carried(images, props[i]) :
           Strip(images') = Strip(RemoveAt(images, k))]_vars

Finished == upload.stage \in {"rejected", "added", "dropped"}

\* The file is empty, or its leading bytes match no signature of the table.
Unsupported(f) == ~f.present \/ f.data = <<>> \/ getImageType(f.data) = ""

\* C7: an upload of an empty file, or of bytes that match no supported
\* signature, ends with the error reported and nothing appended.
C7_InvalidRejected == (Finished /\ Unsupported(upload.file)) => upload.stage = "rejected"

\* The table entries whose whole pattern lies within the buffer and agrees
\* with it wherever the pattern is not a wildcard.
Matching(buffer) ==
  {k \in DOMAIN mimeTypes :
     /\ Len(mimeTypes[k].pattern) <= Len(buffer)
     /\ \A i \in DOMAIN mimeTypes[k].pattern :
          mimeTypes[k].pattern[i] # Null => buffer[i] = mimeTypes[k].pattern[i]}

Typed == upload.stage \in {"decoding", "added", "dropped"}

JpegData(b) == Len(b) >= 4 /\ SubSeq(b, 1, 4) = <<255, 216, 255, 224>>

\* C8: the type of an uploaded file is the mime of the first table entry
\* that matches its leading bytes, the empty string when there is none or
\* the file is shorter than the pattern, whatever the extension; bytes
\* FF D8 FF E0 give image/jpeg.
C8_TypeFromBytes ==
  Typed =>
    LET m == Matching(upload.file.data)
    IN /\ upload.type = IF m = {} THEN ""
                        ELSE mimeTypes[CHOOSE k \in m : \A j \in m : k <= j].mime
       /\ JpegData(upload.file.data) => upload.type = "image/jpeg"

C8_Witness ==
  /\ upload.stage = "added"
  /\ upload.file.ext = "png"
  /\ JpegData(upload.file.data)
  /\ upload.type = "image/jpeg"

\* ---------------------------------------------------------------- C11
\* The write of the second stop() is the one delivered when the first one's
\* has been recorded.
SecondStop == hist.stops = 2 /\ hist.first # <<>> /\ DeliverStop

\* C11: when stop() is called twice in a row, the persisted store after the
\* second call's write is the persisted store after the first call's write.
C11_StopTwice == [][SecondStop => db' = hist.first[1]]_vars

\* ---------------------------------------------------------------- C12
\* A step that calls viewTransition.setImage.
SetsImage ==
  /\ viewTransition' # viewTransition
  /\ \E src \in Urls :
       viewTransition' = setImage(viewTransition, src, visible, settings.overwriteCSS)

Deferred(v) == {t.src : t \in v.timeouts}

\* C12: when setImage is called with another handle while the deferred update
\* of an earlier setImage is pending, that update is cancelled: one update remains, either
\* pending or applied, and it carries the new handle.
C12_DeferredReplaced ==
  [][(/\ SetsImage
      /\ viewTransition.timeouts # {}
      /\ viewTransition'.currentSrc \notin Deferred(viewTransition)) =>
       \/ /\ Deferred(viewTransition') = {viewTransition'.currentSrc}
          /\ viewTransition'.style = viewTransition.style
       \/ /\ Deferred(viewTransition') = {}
          /\ viewTransition'.style = viewTransition'.currentSrc]_vars

\* ---------------------------------------------------------------- C13
\* Both buffers are there and neither is active, which only removeImage
\* brings about; the sink holds no override.
Removed(v) == Len(v.domBG) = 2 /\ Inactive(v) /\ v.style = NoStyle

\* C13: removeImage() leaves no buffer active and no override in the sink,
\* and both stay so in every step that is not a call of setImage.
C13_RemoveStays ==
  [][/\ HandleRemove => Removed(viewTransition')
     /\ (Removed(viewTransition) /\ ~SetsImage) => Removed(viewTransition')]_vars

C15_Period ==
  host.updates = <<>> =>
    \A t \in host.timers : t.period = Max(settings.interval, 30000)

\* ---------------------------------------------------------------- C16
\* C16: while the host is hidden and the timer is not restarted, exactly one
\* of the ticks so far went on to the store, the first one; the count starts
\* again each time the host becomes hidden.
C16_OncePerHidden ==
  (~visible /\ hist.ticks >= 1) => hist.advanced = 1

\* A second tick of a hidden period did nothing.
C16_Witness ==
  /\ ~visible
  /\ hist.ticks = 2
  /\ hist.advanced = 1
  /\ triggeredWhileHidden

\* ---------------------------------------------------------------- C17
\* The tick whose callback runs next, with the store as it read it.
TickSnaps == {op.snap : op \in {q \in NextOp : q.kind = "tick"}}

Sequential(s) == ~settings.shuffle \/ Len(s) <= 2

\* C17: when a tick's callback runs in the sequential branch on n >= 1 items
\* of which exactly the one at 0-based index c is selected, the store then
\* holds the item at index (c + 1) mod n selected and every other item of the
\* list not selected.
C17_NextInOrder ==
  [][\A s \in TickSnaps : \A c \in 0..(Len(s) - 1) :
       (Sequential(s) /\ Selected(s) = {c + 1} /\ DeliverTick) =>
         \A k \in DOMAIN s : \A j \in Carried(db', s[k].id) :
           db'[j].selected = (k - 1 = (c + 1) % Len(s))]_vars

\* The one tick of the run has wrapped around from the last of three items
\* to the first: start() showed the selected item in one buffer, the tick
\* the first item in the other.
C17_Witness ==
  /\ ~settings.shuffle
  /\ Len(db) = 3
  /\ db[1].selected
  /\ calls = 3
  /\ pending = <<>>
  /\ Len(viewTransition.domBG) = 2
  /\ \A k \in 1..2 : viewTransition.domBG[k].image # NoSrc
  /\ viewTransition.currentSrc = db[1].src

\* ---------------------------------------------------------------- C18
\* The tick's callback can run and leave the item with this id selected.
CanSelect(id) ==
  ENABLED (DeliverTick /\ \E j \in DOMAIN db' : db'[j].id = id /\ db'[j].selected)

\* C18: when a tick's callback is about to run in the sequential branch on
\* n >= 1 items none of which is selected, every index 0..n-1 is a possible
\* outcome of it.
C18_RandomStart ==
  \A s \in TickSnaps :
    (Sequential(s) /\ Len(s) >= 1 /\ Selected(s) = {} /\ ENABLED DeliverTick) =>
      \A k \in DOMAIN s : CanSelect(s[k].id)

\* ---------------------------------------------------------------- C19
\* C19: a tick whose store access fails changes no persisted item, no
\* selection and nothing of the presentation, and leaves the rotation timer
\* as it is, so that the timer goes on ticking.
C19_FailedTick ==
  [][TickFails =>
       /\ db' = db
       /\ images' = images
       /\ viewTransition' = viewTransition
       /\ live' = live
       /\ interval' = interval
       /\ host'.timers = host.timers]_vars

\* After a failed tick a later tick has advanced: start() showed the selected
\* item in one buffer, that tick the next item in the other.
C19_Witness ==
  /\ hist.failed = 2
  /\ pending = <<>>
  /\ host.timers # {}
  /\ Len(viewTransition.domBG) = 2
  /\ \A k \in 1..2 : viewTransition.domBG[k].image # NoSrc
  /\ \E j \in DOMAIN db : db[j].selected /\ db[j].src = viewTransition.currentSrc

\* ---------------------------------------------------------------- C20
Loaded == settings # <<>>

\* The value the load has to give for a key: the saved one when there is
\* one, else the default.
Expected(saved, defaults, k) == IF k \in DOMAIN saved THEN saved[k] ELSE defaults[k]

\* C20: the loaded configuration has, for every top-level key and for every
\* key of the groups transition, slideshow and adjustment, the saved value
\* when there is one and the default otherwise; no key of a group is missing.
C20_Merge ==
  Loaded =>
    /\ \A k \in DOMAIN allDefaults \ Groups :
         k \in DOMAIN settings /\ settings[k] = Expected(persisted, allDefaults, k)
    /\ \A g \in Groups :
         /\ g \in DOMAIN settings
         /\ \A k \in DOMAIN allDefaults[g] :
              /\ k \in DOMAIN settings[g]
              /\ settings[g][k] = Expected(Group(persisted, g), allDefaults[g], k)

\* A configuration was loaded whose saved slideshow group has the interval
\* and lacks the shuffle key, and which has one top-level key saved.
C20_Witness ==
  /\ Loaded
  /\ "slideshow" \in DOMAIN persisted
  /\ DOMAIN persisted["slideshow"] = {"interval"}
  /\ "overwriteCSS" \in DOMAIN persisted
  /\ "enableDrop" \notin DOMAIN persisted
  /\ settings["slideshow"]["interval"] = 60000

\* ---------------------------------------------------------------- C21
\* C21: in the persisted store an item that is not selected has no handle.
C21_HandleOnlySelected ==
  \A i \in DOMAIN db : ~db[i].selected => db[i].src = NoSrc

\* ---------------------------------------------------------------- C22
\* C22: the handle an active background buffer shows has not been revoked.
C22_ActiveHandleLive ==
  \A k \in DOMAIN viewTransition.domBG :
    (viewTransition.domBG[k].active /\ viewTransition.domBG[k].image # NoSrc) =>
      viewTransition.domBG[k].image \in live

\* ---------------------------------------------------------------- C23
\* The popup save whose write comes next, when the store has got an item
\* since its read that the read did not see (another save committed in
\* between).
OverlappedSaves ==
  {op \in NextOp : op.kind = "save" /\ Ids(db) \ Ids(op.snap) # {}}

\* C23: when another load-modify-save window has committed between the read
\* and the write of a popup save, the store after the popup save is exactly
\* the list that save writes.
C23_LastWriteWins ==
  [][\A op \in OverlappedSaves :
       DeliverSave => db' = Deref(obj, op.arr)]_vars

\* ---------------------------------------------------------------- C24
\* The handles of the items selected in a store.
Chosen(store) == {store[i].src : i \in Selected(store)}

\* C24: the setImage call of a tick made while both buffers are mounted
\* leaves exactly one buffer active, which shows the handle of the item the
\* tick selected; the active index has changed if and only if the host was
\* visible.
C24_OneActiveBuffer ==
  [][\A s \in TickSnaps :
       (Len(s) >= 1 /\ Len(viewTransition.domBG) = 2 /\ DeliverTick) =>
         LET v == viewTransition' IN
         /\ Len(v.domBG) = 2
         /\ {k \in 1..2 : v.domBG[k].active} = {v.activeIndex + 1}
         /\ Chosen(db') = {v.domBG[v.activeIndex + 1].image}
         /\ v.domBG[v.activeIndex + 1].image # NoSrc
         /\ (v.activeIndex # viewTransition.activeIndex) <=> visible]_vars

\* A tick has called setImage while the host was hidden: the buffer that
\* was active shows the new handle.
C24_Witness ==
  /\ ~visible
  /\ hist.advanced = 1
  /\ hist.failed = 0
  /\ pending = <<>>
  /\ Len(viewTransition.domBG) = 2
  /\ viewTransition.currentSrc # NoSrc
  /\ Chosen(db) = {viewTransition.currentSrc}
  /\ viewTransition.domBG[viewTransition.activeIndex + 1] =
       Bg(TRUE, viewTransition.currentSrc)

\* ---------------------------------------------------------------- C25
\* C25: the index selection of the shuffle branch ends within 26 draws, it
\* goes on only while every draw so far equalled the current index, and it
\* gives the current index only when all 26 draws equalled it.
C25_ShuffleDraws ==
  /\ loop.draws <= 26
  /\ loop.at = "draw" => (loop.draws < 26 /\ loop.differed = 0)
  /\ loop.at = "done" =>
       IF loop.x = loop.cur
       THEN loop.draws = 26 /\ loop.differed = 0
       ELSE loop.differed = 1

\* All 26 draws gave the current index.
C25_Witness ==
  loop.at = "done" /\ loop.x = loop.cur /\ loop.draws = 26 /\ loop.cur >= 0

\* ---------------------------------------------------------------- C26
\* The items of l under the keys 1..Len(l), in order, with the handle the
\* renumbering saveItems keeps (that of a selected item).
Renumbered(l) ==
  [i \in DOMAIN l |->
     [l[i] EXCEPT !.id = i, !.src = IF l[i].selected THEN @ ELSE NoSrc]]

\* C26: when the renumbering saveItems commits with prevItems equal to the
\* store's contents, the store then holds exactly the items of newItems, in
\* order, under the keys 1..Len(newItems), whatever ids they carried.
C26_SequentialKeys ==
  [][\A op \in NextOp :
       (op.kind = "lsave" /\ op.snap = db /\ DeliverLibSave)
         => db' = Renumbered(Deref(obj, op.arr))]_vars

\* ---------------------------------------------------------------- C27
\* The handles the active buffers show.
Presented ==
  {viewTransition.domBG[k].image :
     k \in {j \in DOMAIN viewTransition.domBG : viewTransition.domBG[j].active}}
  \ {NoSrc}

\* C27: whenever the plugin runs and no store operation or queued update is
\* in flight, a background is presented exactly when the store has a
\* selected item, and the handle presented is that item's.
C27_PresentedIsSelected ==
  (pc = "on" /\ pending = <<>> /\ host.updates = <<>>) =>
    /\ (Presented # {}) <=> (Selected(db) # {})
    /\ Presented \subseteq Chosen(db)

\* ---------------------------------------------------------------- C28
\* The ids, payloads and selected flags of a list, in order.
Content(s) ==
  [i \in DOMAIN s |->
     [id |-> s[i].id, image |-> s[i].image, selected |-> s[i].selected]]

\* C28: when a save of the popup's list commits and leaves no store
\* operation or queued update in flight, the store holds the same items
\* (ids, payloads, selected flags) as the popup's list.
C28_ListPersisted ==
  [][(open /\ Len(pending) = 1 /\ host.updates = <<>> /\ DeliverSave)
       => Content(db') = Content(Deref(obj', items'))]_vars

\* ---------------------------------------------------------------- C29
\* C29: once stop() has been called, no rotation timer and no deferred
\* override update is armed, and the presentation buffers and the theme
\* override stay as stop() left them: unmounted and absent.
C29_StoppedForGood ==
  (pc = "off" /\ hist.stops >= 1) =>
    /\ interval = NoTimer
    /\ host.timers = {}
    /\ viewTransition.timeouts = {}
    /\ viewTransition.style = NoStyle
    /\ viewTransition.domBG = <<>>

\* ---------------------------------------------------------------- C30
\* C30: a tick whose callback runs on a store of at least one item, as it
\* read it, leaves exactly one item selected and has called setImage with
\* the handle of that item, which is not null.
C30_TickPresents ==
  [][\A s \in TickSnaps :
       (Len(s) >= 1 /\ s = db /\ DeliverTick) =>
         /\ Cardinality(Selected(db')) = 1
         /\ Chosen(db') = {viewTransition'.currentSrc}
         /\ viewTransition'.currentSrc # NoSrc]_vars

====
